---- MODULE Spec2Model ----
(***************************************************************************)
(* Model of the two Streamlit to-do apps of the repository:                *)
(*   TO-DO.py        plain-completion chat (Gemini) + deletion confirmation *)
(*   withchatbot.py  tool-calling agent (add_task / show_task / edit_task)  *)
(* A session runs one of the two scripts; `app` says which.                *)
(*                                                                         *)
(* Representation.  A Python list is a TLA+ sequence; a Python index i     *)
(* addresses element i+1.  Python's None is the empty tuple and a present  *)
(* value v is <<v>>.  Task names are strings.  Chat texts and tool return  *)
(* values are tuples of string chunks (concatenation is \o), a whitespace  *)
(* character being the chunk " ".                                          *)
(*                                                                         *)
(* A chat turn is two steps: the handler up to the blocking model call,    *)
(* then the model's answer and the rest of the handler.  Only calls that   *)
(* return are modelled; a call that raises is not caught by either script. *)
(***************************************************************************)
EXTENDS Integers, Sequences, FiniteSets, TLC

VARIABLES app, tasks, history, task_to_confirm_delete, checkbox,
          pc, prompt, scratchpad, warning, toast, exception

vars == <<app, tasks, history, task_to_confirm_delete, checkbox,
          pc, prompt, scratchpad, warning, toast, exception>>

\* ------------------------------------------------------------------ bounds
MaxTasks == 3
MaxHistory == 8
MaxToolCalls == 3

\* ------------------------------------------------------------ input values
None == <<>>
Some(v) == <<v>>

TaskNames == {"Buy milk", "Call mom"}
Welcome1 == "Welcome! Add your tasks below."
Welcome2 == "Use the sidebar chatbot for help."
EditTargets == {Welcome1, "Buy milk"}
UserInputs == {<<"hi">>}
AgentOutputs == {<<"Done.">>}
\* what model.generate_content can hand back: an object without a text
\* attribute, or one whose text is empty, blank, or padded with blanks
Responses ==
    { [has_text |-> FALSE, text |-> <<>>],
      [has_text |-> TRUE, text |-> <<>>],
      [has_text |-> TRUE, text |-> <<" ">>],
      [has_text |-> TRUE, text |-> <<" ", "o", " ", "k", " ">>] }

\* ----------------------------------------------------------- Python helpers
Min(a, b) == IF a < b THEN a ELSE b
Max(a, b) == IF a > b THEN a ELSE b

\* list[start:] for a possibly negative start
PySliceFrom(list, start) ==
    LET n == Len(list)
        s == IF start < 0 THEN Max(n + start, 0) ELSE Min(start, n)
    IN  SubSeq(list, s + 1, n)

\* mutant: pop() without the index removes the last element
PyPop_Last(list, i) == SubSeq(list, 1, Len(list) - 1)

\* list.pop(i) for a valid index i: the list without element i
PyPop(list, i) == SubSeq(list, 1, i) \o SubSeq(list, i + 2, Len(list))

ValidIndex(list, i) == i >= 0 /\ i < Len(list)

IsSpace(c) == c = " "

RECURSIVE LStrip(_)
LStrip(s) == IF s # <<>> /\ IsSpace(Head(s)) THEN LStrip(Tail(s)) ELSE s

RECURSIVE RStrip(_)
RStrip(s) ==
    IF s # <<>> /\ IsSpace(s[Len(s)]) THEN RStrip(SubSeq(s, 1, Len(s) - 1)) ELSE s

\* str.strip()
Strip(s) == RStrip(LStrip(s))

\* ------------------------------------------------------ TO-DO.py: ask_gemini
Fallback == <<"I could not generate a response right now.">>

TasksText(ts) ==
    IF ts # <<>> THEN [k \in 1..Len(ts) |-> <<"- ", ts[k].task>>]
    ELSE <<"No tasks yet.">>

\* mutant: history[:6] keeps the oldest six
HistoryWindow_FirstSix(h) == SubSeq(h, 1, Min(6, Len(h)))

HistoryWindow(h) == PySliceFrom(h, -6)

RoleLabel(msg) == IF msg.role = "user" THEN "User" ELSE "Assistant"

RECURSIVE HistoryText(_)
HistoryText(msgs) ==
    IF msgs = <<>> THEN <<>>
    ELSE <<[role |-> RoleLabel(Head(msgs)), content |-> Head(msgs).content]>>
         \o HistoryText(Tail(msgs))

BuildPrompt(ts, h, user_message) ==
    [tasks_text |-> TasksText(ts),
     history_text |-> HistoryText(HistoryWindow(h)),
     user_message |-> user_message]

\* mutant: only hasattr is tested, an empty text is returned as it is
ReplyOf_HasattrOnly(response) ==
    IF response.has_text THEN Strip(response.text) ELSE Fallback

ReplyOf(response) ==
    IF response.has_text /\ response.text # <<>> THEN Strip(response.text)
    ELSE Fallback

\* ------------------------------------------------- withchatbot.py: the tools
\* mutant: insert(0, ...) instead of append
add_task_InsertFirst(ts, task) ==
    [tasks |-> <<[task |-> task, completed |-> FALSE]>> \o ts,
     ret |-> <<"Task '", task, "' was added successfully!">>]

add_task(ts, task) ==
    [tasks |-> Append(ts, [task |-> task, completed |-> FALSE]),
     ret |-> <<"Task '", task, "' was added successfully!">>]

ShowLine(k, item) ==
    <<k, ". [", IF item.completed THEN "v" ELSE " ", "] ", item.task>>

\* mutant: the entries are numbered i instead of i+1
show_task_ZeroBased(ts) ==
    [tasks |-> ts,
     ret |-> IF ts = <<>> THEN <<"The to-do list is empty.">>
             ELSE <<"Here is the current to-do list:">>
                  \o [k \in 1..Len(ts) |-> ShowLine(k - 1, ts[k])]]

show_task(ts) ==
    [tasks |-> ts,
     ret |-> IF ts = <<>> THEN <<"The to-do list is empty.">>
             ELSE <<"Here is the current to-do list:">>
                  \o [k \in 1..Len(ts) |-> ShowLine((k - 1) + 1, ts[k])]]

\* mutant: the scan keeps the last match instead of stopping at the first
RECURSIVE FirstMatch_Last(_, _, _)
FirstMatch_Last(ts, name, k) ==
    IF k > Len(ts) THEN 0
    ELSE LET later == FirstMatch_Last(ts, name, k + 1)
         IN  IF later # 0 THEN later
             ELSE IF ts[k].task = name THEN k ELSE 0

RECURSIVE FirstMatch(_, _, _)
FirstMatch(ts, name, k) ==
    IF k > Len(ts) THEN 0
    ELSE IF ts[k].task = name THEN k
    ELSE FirstMatch(ts, name, k + 1)

\* mutant: no break, every task with the name is renamed
edit_task_AllMatches(ts, current_task_name, new_task_name) ==
    IF \E k \in 1..Len(ts) : ts[k].task = current_task_name
    THEN [tasks |-> [k \in 1..Len(ts) |->
                        IF ts[k].task = current_task_name
                        THEN [ts[k] EXCEPT !.task = new_task_name] ELSE ts[k]],
          ret |-> <<"Successfully updated task from '", current_task_name,
                    "' to '", new_task_name, "'.">>]
    ELSE [tasks |-> ts,
          ret |-> <<"Error: Could not find a task named '",
                    current_task_name, "'.">>]

\* mutant: a name that is not found is added as a new task
edit_task_AddsWhenMissing(ts, current_task_name, new_task_name) ==
    IF \E k \in 1..Len(ts) : ts[k].task = current_task_name
    THEN [tasks |-> [ts EXCEPT ![CHOOSE k \in 1..Len(ts) :
                                    /\ ts[k].task = current_task_name
                                    /\ \A m \in 1..(k - 1) :
                                          ts[m].task # current_task_name].task
                                  = new_task_name],
          ret |-> <<"Successfully updated task from '", current_task_name,
                    "' to '", new_task_name, "'.">>]
    ELSE [tasks |-> Append(ts, [task |-> new_task_name, completed |-> FALSE]),
          ret |-> <<"Error: Could not find a task named '",
                    current_task_name, "'.">>]

edit_task(ts, current_task_name, new_task_name) ==
    LET k == FirstMatch(ts, current_task_name, 1)
    IN  IF k # 0
        THEN [tasks |-> [ts EXCEPT ![k].task = new_task_name],
              ret |-> <<"Successfully updated task from '", current_task_name,
                        "' to '", new_task_name, "'.">>]
        ELSE [tasks |-> ts,
              ret |-> <<"Error: Could not find a task named '",
                        current_task_name, "'.">>]

\* --------------------------------------------------------- script re-runs
\* TO-DO.py re-renders one checkbox per task, keyed task_<index>, default off
RenderToDo(ts, cb) ==
    [k \in 1..Len(ts) |-> IF k <= Len(cb) THEN cb[k] ELSE FALSE]

\* withchatbot.py: a new checkbox takes value=item["completed"], an existing
\* one keeps its widget state; the loop then stores it into the task
RenderChatbotBoxes(ts, cb) ==
    [k \in 1..Len(ts) |-> IF k <= Len(cb) THEN cb[k] ELSE ts[k].completed]

RenderChatbotTasks(ts, cb) ==
    [k \in 1..Len(ts) |-> [ts[k] EXCEPT !.completed = RenderChatbotBoxes(ts, cb)[k]]]

\* TO-DO.py line 170: tasks[task_index] is looked up on every run with a
\* pending deletion
PendingLookup(ts, pending) ==
    IF pending # None /\ ~ValidIndex(ts, pending[1]) THEN "IndexError" ELSE "none"

\* --------------------------------------------------------------------- Init
InitToDo ==
    /\ app = "TO-DO.py"
    /\ tasks = <<>>
    /\ checkbox = <<>>

InitChatbot ==
    /\ app = "withchatbot.py"
    /\ tasks = << [task |-> Welcome1, completed |-> FALSE],
                  [task |-> Welcome2, completed |-> FALSE] >>
    /\ checkbox = <<FALSE, FALSE>>

InitSession ==
    /\ history = <<>>
    /\ task_to_confirm_delete = None
    /\ pc = "idle"
    /\ prompt = None
    /\ scratchpad = <<>>
    /\ warning = FALSE
    /\ toast = None
    /\ exception = "none"

StartToDo == InitToDo /\ InitSession
StartChatbot == InitChatbot /\ InitSession
Init == StartToDo \/ StartChatbot

\* ---------------------------------------------------------- TO-DO.py actions
ToDoChatInput(user_input) ==
    /\ app = "TO-DO.py" /\ pc = "idle"
    /\ user_input # <<>>
    /\ Len(history) + 2 <= MaxHistory
    /\ history' = Append(history, [role |-> "user", content |-> user_input])
    /\ prompt' = Some(BuildPrompt(tasks, history', user_input))
    /\ pc' = "thinking"
    /\ warning' = FALSE /\ toast' = None
    /\ UNCHANGED <<app, tasks, task_to_confirm_delete, checkbox, scratchpad, exception>>

GeminiResponds(response) ==
    /\ app = "TO-DO.py" /\ pc = "thinking"
    /\ history' = Append(history, [role |-> "assistant", content |-> ReplyOf(response)])
    /\ prompt' = None
    /\ pc' = "idle"
    /\ exception' = PendingLookup(tasks, task_to_confirm_delete)
    /\ UNCHANGED <<app, tasks, task_to_confirm_delete, checkbox, scratchpad, warning, toast>>

\* mutant: the input is appended without the `if new_task` test
ToDoAddTaskButton_NoEmptyTest(new_task) ==
    /\ app = "TO-DO.py" /\ pc = "idle"
    /\ Len(tasks) < MaxTasks
    /\ tasks' = Append(tasks, [task |-> new_task, completed |-> FALSE])
    /\ checkbox' = RenderToDo(tasks', checkbox)
    /\ warning' = FALSE
    /\ toast' = None
    /\ exception' = PendingLookup(tasks', task_to_confirm_delete)
    /\ UNCHANGED <<app, history, task_to_confirm_delete, pc, prompt, scratchpad>>

ToDoAddTaskButton(new_task) ==
    /\ app = "TO-DO.py" /\ pc = "idle"
    /\ IF new_task # ""
       THEN /\ Len(tasks) < MaxTasks
            /\ tasks' = Append(tasks, [task |-> new_task, completed |-> FALSE])
            /\ checkbox' = RenderToDo(tasks', checkbox)
            /\ warning' = FALSE
       ELSE /\ warning' = TRUE
            /\ UNCHANGED <<tasks, checkbox>>
    /\ toast' = None
    /\ exception' = PendingLookup(tasks', task_to_confirm_delete)
    /\ UNCHANGED <<app, history, task_to_confirm_delete, pc, prompt, scratchpad>>

CheckboxChange(i) ==
    /\ app = "TO-DO.py" /\ pc = "idle"
    /\ ValidIndex(tasks, i)
    /\ checkbox' = [checkbox EXCEPT ![i + 1] = ~@]
    /\ task_to_confirm_delete' = Some(i)
    /\ warning' = FALSE /\ toast' = None
    /\ exception' = PendingLookup(tasks, task_to_confirm_delete')
    /\ UNCHANGED <<app, tasks, history, pc, prompt, scratchpad>>

\* mutant: the pending index is not reset after the removal
YesRemoveIt_KeepsPending ==
    /\ app = "TO-DO.py" /\ pc = "idle"
    /\ task_to_confirm_delete # None
    /\ exception = "none"
    /\ LET task_index == task_to_confirm_delete[1]
           task_name == tasks[task_index + 1].task
       IN  /\ tasks' = PyPop(tasks, task_index)
           /\ toast' = Some(task_name)
    /\ checkbox' = RenderToDo(tasks', checkbox)
    /\ warning' = FALSE
    /\ exception' = PendingLookup(tasks', task_to_confirm_delete)
    /\ UNCHANGED <<app, history, task_to_confirm_delete, pc, prompt, scratchpad>>

YesRemoveIt ==
    /\ app = "TO-DO.py" /\ pc = "idle"
    /\ task_to_confirm_delete # None
    /\ exception = "none"
    /\ LET task_index == task_to_confirm_delete[1]
           task_name == tasks[task_index + 1].task
       IN  /\ tasks' = PyPop(tasks, task_index)
           /\ toast' = Some(task_name)
    /\ task_to_confirm_delete' = None
    /\ checkbox' = RenderToDo(tasks', checkbox)
    /\ warning' = FALSE
    /\ exception' = PendingLookup(tasks', task_to_confirm_delete')
    /\ UNCHANGED <<app, history, pc, prompt, scratchpad>>

NoKeepIt ==
    /\ app = "TO-DO.py" /\ pc = "idle"
    /\ task_to_confirm_delete # None
    /\ exception = "none"
    /\ task_to_confirm_delete' = None
    /\ warning' = FALSE /\ toast' = None
    /\ exception' = PendingLookup(tasks, task_to_confirm_delete')
    /\ UNCHANGED <<app, tasks, history, checkbox, pc, prompt, scratchpad>>

NextToDo ==
    \/ \E user_input \in UserInputs : ToDoChatInput(user_input)
    \/ \E response \in Responses : GeminiResponds(response)
    \/ \E new_task \in TaskNames \cup {""} : ToDoAddTaskButton(new_task)
    \/ \E i \in 0..(MaxTasks - 1) : CheckboxChange(i)
    \/ YesRemoveIt
    \/ NoKeepIt

\* ---------------------------------------------------- withchatbot.py actions
ToolCalls ==
    {[tool |-> "add_task", tool_input |-> <<t>>] : t \in TaskNames}
    \cup {[tool |-> "show_task", tool_input |-> <<>>]}
    \cup {[tool |-> "edit_task", tool_input |-> <<a, b>>] :
            a \in EditTargets, b \in TaskNames}

RunTool(call, ts) ==
    CASE call.tool = "add_task" -> add_task(ts, call.tool_input[1])
      [] call.tool = "show_task" -> show_task(ts)
      [] call.tool = "edit_task" ->
            edit_task(ts, call.tool_input[1], call.tool_input[2])

ChatbotAddTaskButton(new_task) ==
    /\ app = "withchatbot.py" /\ pc = "idle"
    /\ IF new_task # ""
       THEN /\ Len(tasks) < MaxTasks
            /\ LET added == add_task(tasks, new_task).tasks
               IN  /\ tasks' = RenderChatbotTasks(added, checkbox)
                   /\ checkbox' = RenderChatbotBoxes(added, checkbox)
            /\ warning' = FALSE
       ELSE /\ warning' = TRUE
            /\ tasks' = RenderChatbotTasks(tasks, checkbox)
            /\ checkbox' = RenderChatbotBoxes(tasks, checkbox)
    /\ UNCHANGED <<app, history, task_to_confirm_delete, pc, prompt, scratchpad,
                   toast, exception>>

CheckboxToggle(i) ==
    /\ app = "withchatbot.py" /\ pc = "idle"
    /\ ValidIndex(checkbox, i)
    /\ LET clicked == [checkbox EXCEPT ![i + 1] = ~@]
       IN  /\ tasks' = RenderChatbotTasks(tasks, clicked)
           /\ checkbox' = RenderChatbotBoxes(tasks, clicked)
    /\ warning' = FALSE
    /\ UNCHANGED <<app, history, task_to_confirm_delete, pc, prompt, scratchpad,
                   toast, exception>>

ChatbotChatInput(user_input) ==
    /\ app = "withchatbot.py" /\ pc = "idle"
    /\ user_input # <<>>
    /\ Len(history) + 2 <= MaxHistory
    /\ tasks' = RenderChatbotTasks(tasks, checkbox)
    /\ checkbox' = RenderChatbotBoxes(tasks, checkbox)
    /\ history' = Append(history, [role |-> "user", content |-> user_input])
    /\ scratchpad' = <<>>
    /\ pc' = "agent"
    /\ warning' = FALSE
    /\ UNCHANGED <<app, task_to_confirm_delete, prompt, toast, exception>>

\* the executor runs one tool the model asked for and keeps its output
AgentToolCall(call) ==
    /\ app = "withchatbot.py" /\ pc = "agent"
    /\ Len(scratchpad) < MaxToolCalls
    /\ call.tool = "add_task" => Len(tasks) < MaxTasks
    /\ LET r == RunTool(call, tasks)
       IN  /\ tasks' = r.tasks
           /\ scratchpad' = Append(scratchpad,
                  [tool |-> call.tool, tool_input |-> call.tool_input,
                   observation |-> r.ret])
    /\ UNCHANGED <<app, history, task_to_confirm_delete, checkbox, pc, prompt,
                   warning, toast, exception>>

\* the model answers in text: the executor returns response['output']
AgentFinish(output) ==
    /\ app = "withchatbot.py" /\ pc = "agent"
    /\ history' = Append(history, [role |-> "assistant", content |-> output])
    /\ tasks' = RenderChatbotTasks(tasks, checkbox)
    /\ checkbox' = RenderChatbotBoxes(tasks, checkbox)
    /\ scratchpad' = <<>>
    /\ pc' = "idle"
    /\ UNCHANGED <<app, task_to_confirm_delete, prompt, warning, toast, exception>>

NextChatbot ==
    \/ \E new_task \in TaskNames \cup {""} : ChatbotAddTaskButton(new_task)
    \/ \E i \in 0..(MaxTasks - 1) : CheckboxToggle(i)
    \/ \E user_input \in UserInputs : ChatbotChatInput(user_input)
    \/ \E call \in ToolCalls : AgentToolCall(call)
    \/ \E output \in AgentOutputs : AgentFinish(output)

Next == NextToDo \/ NextChatbot

Spec == Init /\ [][Next]_vars

\* one app at a time
SpecToDo == StartToDo /\ [][NextToDo]_vars
SpecChatbot == StartChatbot /\ [][NextChatbot]_vars
\* the tools as functions of the Task List: every list of at most MaxTasks
\* tasks is handed to the executor in the middle of a chat turn
TaskLists ==
    UNION {[1..n -> [task : TaskNames, completed : BOOLEAN]] : n \in 0..MaxTasks}

InitTools ==
    /\ app = "withchatbot.py"
    /\ tasks \in TaskLists
    /\ checkbox = [k \in 1..Len(tasks) |-> tasks[k].completed]
    /\ history = <<[role |-> "user", content |-> <<"hi">>]>>
    /\ task_to_confirm_delete = None
    /\ pc = "agent"
    /\ prompt = None
    /\ scratchpad = <<>>
    /\ warning = FALSE
    /\ toast = None
    /\ exception = "none"

NextTools ==
    \/ \E call \in ToolCalls : AgentToolCall(call)
    \/ \E output \in AgentOutputs : AgentFinish(output)

SpecTools == InitTools /\ [][NextTools]_vars

\* ================================================================== claims
LastCall == scratchpad[Len(scratchpad)]
LastCallNext == scratchpad'[Len(scratchpad')]
EditCalls == {c \in ToolCalls : c.tool = "edit_task"}
HasTask(ts, name) == \E k \in 1..Len(ts) : ts[k].task = name
\* ts without the element at Python index i, stated position by position
Removed(ts, i, after) ==
    /\ Len(after) = Len(ts) - 1
    /\ \A k \in 1..Len(after) : after[k] = IF k <= i THEN ts[k] ELSE ts[k + 1]

\* C1: marking a task while another is pending leaves only the newly marked
\* index pending; "Yes, Remove It" removes exactly the pending task, keeps
\* the others in order, and clears the pending deletion; "No, Keep It"
\* leaves the Task List as it is and clears the pending deletion.
C1_ConfirmationWorkflow ==
    [][ /\ \A j \in 0..(MaxTasks - 1) :
              CheckboxChange(j) =>
                  task_to_confirm_delete' = <<j>> /\ tasks' = tasks
        /\ YesRemoveIt =>
              /\ Removed(tasks, task_to_confirm_delete[1], tasks')
              /\ task_to_confirm_delete' = None
        /\ NoKeepIt => tasks' = tasks /\ task_to_confirm_delete' = None
      ]_vars

\* two tasks were marked (both boxes changed), the later one was confirmed
\* and removed
C1_Witness ==
    /\ app = "TO-DO.py"
    /\ toast = <<"Call mom">>
    /\ task_to_confirm_delete = None
    /\ tasks = << [task |-> "Buy milk", completed |-> FALSE],
                  [task |-> "Buy milk", completed |-> FALSE] >>
    /\ checkbox = <<TRUE, TRUE>>

\* C2: add_task(t) and the manual Add Task path with non-empty t grow the
\* Task List by exactly one; the new task is last, has text t and
\* completed = false; the earlier tasks are unchanged in place.
C2_AddAppendsOne ==
    [][ \A t \in TaskNames :
          (\/ ToDoAddTaskButton(t)
           \/ ChatbotAddTaskButton(t)
           \/ AgentToolCall([tool |-> "add_task", tool_input |-> <<t>>]))
          => /\ Len(tasks') = Len(tasks) + 1
             /\ tasks'[Len(tasks')] = [task |-> t, completed |-> FALSE]
             /\ \A k \in 1..Len(tasks) : tasks'[k] = tasks[k]
      ]_vars

C2_Witness ==
    /\ app = "withchatbot.py"
    /\ scratchpad # <<>>
    /\ LastCall.tool = "add_task"
    /\ Len(tasks) = 3
    /\ tasks[2].completed
    /\ tasks[3] = [task |-> LastCall.tool_input[1], completed |-> FALSE]

\* C3: edit_task(a, b) with at least one task named a renames the first such
\* task to b and changes nothing else: same length, same position and
\* completed flag, later tasks named a untouched; it returns the success text.
C3_EditFirstMatchOnly ==
    [][ \A c \in EditCalls :
          (AgentToolCall(c) /\ HasTask(tasks, c.tool_input[1]))
          => LET a == c.tool_input[1]
                 b == c.tool_input[2]
                 first == CHOOSE k \in 1..Len(tasks) :
                              /\ tasks[k].task = a
                              /\ \A m \in 1..(k - 1) : tasks[m].task # a
             IN  /\ Len(tasks') = Len(tasks)
                 /\ tasks'[first] = [task |-> b, completed |-> tasks[first].completed]
                 /\ \A k \in 1..Len(tasks) : k # first => tasks'[k] = tasks[k]
                 /\ LastCallNext.observation =
                        <<"Successfully updated task from '", a, "' to '", b, "'.">>
      ]_vars

\* the first of two tasks named a was renamed, the second still has the name
C3_Witness ==
    /\ scratchpad # <<>>
    /\ LastCall.tool = "edit_task"
    /\ LastCall.tool_input = <<"Buy milk", "Call mom">>
    /\ LastCall.observation[1] = "Successfully updated task from '"
    /\ Len(tasks) = 3
    /\ tasks[1].task = "Call mom" /\ tasks[1].completed
    /\ tasks[3].task = "Buy milk"

\* C4: edit_task(a, b) with no task named a leaves the Task List as it is
\* and returns the failure text, which differs from the success text; no
\* error is raised.
C4_EditMissLeavesList ==
    [][ \A c \in EditCalls :
          (AgentToolCall(c) /\ ~HasTask(tasks, c.tool_input[1]))
          => /\ tasks' = tasks
             /\ LastCallNext.observation =
                    <<"Error: Could not find a task named '", c.tool_input[1], "'.">>
             /\ LastCallNext.observation[1] # "Successfully updated task from '"
             /\ exception' = "none"
             /\ pc' = "agent"
      ]_vars

C4_Witness ==
    /\ scratchpad # <<>>
    /\ LastCall.tool = "edit_task"
    /\ LastCall.observation[1] = "Error: Could not find a task named '"
    /\ ~HasTask(tasks, LastCall.tool_input[1])

\* C5: show_task() returns the empty-list message exactly when the Task List
\* is empty; otherwise it returns, after the heading, one entry per task,
\* the k-th numbered k and carrying the k-th task's text; it never changes
\* the Task List.
C5_ShowEnumerates ==
    [][ AgentToolCall([tool |-> "show_task", tool_input |-> <<>>])
        => LET out == LastCallNext.observation
           IN  /\ tasks' = tasks
               /\ (out[1] = "The to-do list is empty.") <=> (tasks = <<>>)
               /\ tasks = <<>> => Len(out) = 1
               /\ tasks # <<>> =>
                     /\ Len(out) = Len(tasks) + 1
                     /\ \A k \in 1..Len(tasks) :
                           /\ out[k + 1][1] = k
                           /\ out[k + 1][5] = tasks[k].task
      ]_vars

\* show_task ran on the empty list, then a task was added and show_task
\* ran again
C5_Witness ==
    /\ Len(scratchpad) = 3
    /\ scratchpad[1].tool = "show_task"
    /\ scratchpad[1].observation = <<"The to-do list is empty.">>
    /\ scratchpad[3].tool = "show_task"
    /\ Len(scratchpad[3].observation) = 2
    /\ scratchpad[3].observation[2][1] = 1
    /\ scratchpad[3].observation[2][5] = "Call mom"

\* C6: the history lines put into the prompt are exactly the most recent
\* min(6, L) turns of the stored History (L its length when the prompt is
\* built), oldest first, and building the prompt leaves the stored History
\* as the chat handler wrote it.
C6_WindowIsLastSix ==
    [][ \A u \in UserInputs :
          ToDoChatInput(u)
          => LET stored == Append(history, [role |-> "user", content |-> u])
                 L == Len(stored)
                 m == IF L < 6 THEN L ELSE 6
                 lines == prompt'[1].history_text
             IN  /\ history' = stored
                 /\ Len(lines) = m
                 /\ \A k \in 1..m :
                       /\ lines[k].content = stored[L - m + k].content
                       /\ lines[k].role = "User" <=> stored[L - m + k].role = "user"
                       /\ lines[k].role = "Assistant"
                              <=> stored[L - m + k].role = "assistant"
      ]_vars

C6_Witness ==
    /\ pc = "thinking"
    /\ Len(history) = 7
    /\ Len(prompt[1].history_text) = 6
    /\ prompt[1].history_text[1].role = "Assistant"
    /\ prompt[1].history_text[1].content = history[2].content
    /\ history[2].content # history[4].content

\* C7 as stated: a chat turn of the tool-calling app runs at most one tool.
C7_AtMostOneToolCall == Len(scratchpad) <= 1

SameButName(x, y) == x.completed = y.completed
\* C7 amended: within a chat turn the tools run one at a time, each call
\* changing the Task List by that one tool's operation (one task appended,
\* or at most one task renamed) without touching History, and the turn ends
\* with exactly one reply appended to History.
C7_OneOperationPerToolCall ==
    [][ /\ (pc = "agent" /\ pc' = "agent" /\ scratchpad' # scratchpad)
           => /\ Len(scratchpad') = Len(scratchpad) + 1
              /\ SubSeq(scratchpad', 1, Len(scratchpad)) = scratchpad
              /\ LastCallNext.tool \in {"add_task", "show_task", "edit_task"}
              /\ history' = history
              /\ \/ /\ LastCallNext.tool = "add_task"
                    /\ Len(tasks') = Len(tasks) + 1
                    /\ SubSeq(tasks', 1, Len(tasks)) = tasks
                 \/ /\ LastCallNext.tool # "add_task"
                    /\ Len(tasks') = Len(tasks)
                    /\ Cardinality({k \in 1..Len(tasks) : tasks'[k] # tasks[k]}) <= 1
                    /\ \A k \in 1..Len(tasks) : SameButName(tasks'[k], tasks[k])
        /\ (pc = "agent" /\ pc' = "idle")
           => /\ Len(history') = Len(history) + 1
              /\ SubSeq(history', 1, Len(history)) = history
              /\ history'[Len(history')].role = "assistant"
              /\ tasks' = tasks
      ]_vars

\* a second tool has run in the same turn
C7_Witness ==
    /\ pc = "agent"
    /\ Len(scratchpad) = 2
    /\ scratchpad[1].tool = "add_task"
    /\ scratchpad[2].tool = "edit_task"

C9_EmptyAddChangesNothing ==
    [][ (ToDoAddTaskButton("") \/ ChatbotAddTaskButton(""))
        => /\ warning'
           /\ tasks' = tasks
           /\ history' = history
           /\ task_to_confirm_delete' = task_to_confirm_delete
      ]_vars

C9_Witness ==
    /\ app = "TO-DO.py"
    /\ warning
    /\ Len(tasks) = 2
    /\ Len(history) = 2
    /\ task_to_confirm_delete = <<1>>

\* C10: in TO-DO.py the pending deletion is always either none or an index
\* of the current Task List, so the lookup of the pending task's name and
\* the removal on confirm never go outside the list.
C10_PendingIndexValid ==
    app = "TO-DO.py" =>
        /\ \/ task_to_confirm_delete = None
           \/ /\ task_to_confirm_delete[1] >= 0
              /\ task_to_confirm_delete[1] < Len(tasks)
        /\ exception = "none"

\* after chatting and marking the first task, the last task of a full list
\* is the one pending
C10_Witness ==
    /\ app = "TO-DO.py"
    /\ Len(tasks) = MaxTasks
    /\ task_to_confirm_delete = <<MaxTasks - 1>>
    /\ checkbox[1]
    /\ Len(history) >= 2
====
